---- MODULE Spec2Model ----
(***************************************************************************)
(* The token acquisition and refresh decision chain of                     *)
(* src/hooks/auth_manager.py (class AuthenticationManager), and the        *)
(* pre-commit hook of src/hooks/hook.py (main) that calls it.              *)
(*                                                                         *)
(* A Python dict is a function from the keys it holds to their values, so  *)
(* "k in d" is k \in DOMAIN d and d.get(k) is _get(d, k).  Python's None   *)
(* is the string "None" where a string is expected and the empty dict      *)
(* NoDict where a dict is expected: the source tests both only for         *)
(* truthiness ("if tokens:", "if token:").                                 *)
(*                                                                         *)
(* The module hooks/oauth_login.py (TokenStorage, Auth0Config,             *)
(* OAuth2PKCEFlow, TokenResponse) is not among the sources; its operations *)
(* are modelled from the specification's contracts (sections 4.1, 4.2, 6). *)
(***************************************************************************)
EXTENDS Integers, Sequences, FiniteSets, TLC

VARIABLES
    env_token_path,          \* os.environ.get("AUTH_TOKEN_PATH")
    legacy_file,             \* the file that path names
    server_url,              \* os.environ.get("SERVER_URL")
    config,                  \* self.config
    oauth_login_importable,  \* whether "oauth_login" is a top-level module
    store,                   \* the payload of storage.token_file, NoDict when absent
    store_mtime,             \* token_file.stat().st_mtime
    now,                     \* the wall clock, in seconds
    pc,                      \* position of the running ensure_authenticated()
    token,                   \* get_valid_token's local "token"
    tokens,                  \* get_valid_token's local "tokens"
    fresh,                   \* what _is_token_fresh answered for them
    probe_response,          \* _is_token_valid's local "response"
    refresh_token,           \* _refresh_access_token's parameter
    refresh_response,        \* _refresh_access_token's local "response"
    steps,                   \* the steps of the chain this invocation entered
    log,                     \* the external calls this invocation issued
    result,                  \* the value ensure_authenticated() returned
    outcome,                 \* how the invocation ended
    source,                  \* the step that produced the result
    last_token,              \* the token the latest successful invocation returned
    cleared,                 \* clear_credentials() ran since the latest invocation
    dead_token,              \* the token that was active when it ran
    minted,                  \* how many token sets the identity provider issued
    flow_success,            \* authenticate_user's local "success"
    was_stale,               \* "stale" when the latest invocation found the stored
                             \* credential stale, "rewritten" once the store was
                             \* written again after that, else "no"
    hook_pc,                 \* position of the running hook (hook.py main)
    exit_status,             \* the status the hook exited with, -1 while it runs
    hook_token,              \* main's local "token"
    staged,                  \* what "git diff --cached" answered
    changes,                 \* main's local "changes"
    health_response,         \* check_api_health's local "response"
    evaluate_response,       \* evaluate_code's local "response"
    rejected_token,          \* the token the evaluation endpoint answered 401 to
    prev_rejected,           \* the same, of the hook run before this one
    cpc,                     \* per process: position in its operation on the store
    ctokens,                 \* per process: what load_tokens() returned to it
    crt,                     \* per process: the refresh token it sent
    cresp,                   \* per process: the token endpoint's answer
    cresult,                 \* per process: the token its invocation returned
    cnew,                    \* per process: the token set it is saving
    last_writer              \* the process whose save or clear finished last, 0 if none

vars == <<env_token_path, legacy_file, server_url, config, oauth_login_importable,
          store, store_mtime, now, pc, token, tokens, fresh, probe_response,
          refresh_token, refresh_response, steps, log, result, outcome, source,
          last_token, cleared, dead_token, minted, flow_success, was_stale,
          hook_pc, exit_status, hook_token, staged, changes, health_response, evaluate_response,
          rejected_token, prev_rejected, cpc, ctokens, crt, cresp, cresult,
          cnew, last_writer>>

(* the locals of a running invocation that only one step writes *)
localVars == <<token, tokens, fresh, probe_response, refresh_token, refresh_response,
               flow_success>>

hookVars == <<hook_pc, exit_status, hook_token, staged, changes, health_response,
              evaluate_response, rejected_token, prev_rejected>>

concVars == <<cpc, ctokens, crt, cresp, cresult, cnew, last_writer>>

(* what the invocations of one manager leave alone *)
auxVars == <<was_stale, hookVars, concVars>>

envVars == <<env_token_path, legacy_file, server_url, config, oauth_login_importable>>

----------------------------------------------------------------------------
(* Bounds of the model *)

MaxNow == 500
MaxMint == 2

(* The clock advances in steps of Deltas seconds *)
Deltas == {100}

----------------------------------------------------------------------------
(* Values *)

None == "None"
NoDict == [k \in {} |-> None]

Truthy(x) == x # None /\ x # ""

_get(d, k) == IF k \in DOMAIN d THEN d[k] ELSE None

(* "5 min margen" *)
MARGIN == 300

(* Lifetimes the identity provider declares: at, just above and well above the margin *)
ExpiresIns == {300, 400, 600}

AccessToken(n) == "A" \o ToString(n)
RefreshToken(n) == "R" \o ToString(n)

(* A token set as the Credential Store serialises it *)
Saved(a, r, e) ==
    IF r = None
    THEN [access_token |-> a, expires_in |-> e, token_type |-> "Bearer",
          saved_at |-> "hash"]
    ELSE [access_token |-> a, refresh_token |-> r, expires_in |-> e,
          token_type |-> "Bearer", saved_at |-> "hash"]

InitialStores ==
    {NoDict} \cup {Saved(AccessToken(0), r, e) : r \in {None, RefreshToken(0)},
                                                 e \in ExpiresIns}

AbsentFile == [kind |-> "absent"]

NoResponse == [kind |-> "none"]

(* Contents of the legacy token file: no file, not JSON, JSON that is not an
   object, and objects without, with an empty and with an access_token *)
LegacyFiles ==
    {AbsentFile,
     [kind |-> "garbage"],
     [kind |-> "array"],
     [kind |-> "object", data |-> NoDict],
     [kind |-> "object", data |-> [access_token |-> ""]],
     [kind |-> "object", data |-> [access_token |-> "L1"]]}

(* Answers of GET {server}/health: a status, or a RequestException *)
ProbeResponses ==
    {[kind |-> "http", status |-> s] : s \in {200, 401, 403, 500}}
    \cup {[kind |-> "exception"]}

(* Answers of POST /oauth/token: HTTP 200 with a token set that has or lacks a
   refresh_token, HTTP 200 with a body that is not JSON, another status, or a
   RequestException *)
RefreshBodies(n) ==
    {[access_token |-> AccessToken(n), expires_in |-> e, token_type |-> "Bearer"]
        : e \in ExpiresIns}
    \cup {[access_token |-> AccessToken(n), refresh_token |-> RefreshToken(n),
           expires_in |-> e, token_type |-> "Bearer"] : e \in ExpiresIns}

RefreshResponses(n) ==
    {[kind |-> "http", status |-> 200, body |-> b] : b \in RefreshBodies(n)}
    \cup {[kind |-> "http", status |-> s] : s \in {400, 401, 500}}
    \cup {[kind |-> "notjson", status |-> 200], [kind |-> "exception"]}

----------------------------------------------------------------------------
(* hooks/oauth_login.py, from the specification's contracts *)

(* The token file while a save is writing it: not yet valid JSON *)
PartialFile == [partial |-> TRUE]

(* TokenStorage.load_tokens: the saved credential, or nothing when there is
   none or the file cannot be parsed *)
load_tokens(st) == IF st = PartialFile THEN NoDict ELSE st

(* TokenStorage.save_tokens: overwrite the stored value *)
save_tokens(token_response) ==
    Saved(token_response.access_token, _get(token_response, "refresh_token"),
          token_response.expires_in)

(* TokenStorage.clear_tokens: remove the stored credential, idempotent *)
clear_tokens(st) == NoDict

(* TokenResponse built from the keys of new_tokens *)
TokenResponse(new_tokens) == new_tokens

(* The token set OAuth2PKCEFlow.run_authentication_flow() stores on success *)
FlowTokenSets(n) == RefreshBodies(n)

----------------------------------------------------------------------------
(* hooks/auth_manager.py *)

(* _load_token_from_file: json.load, then token_data.get("access_token").
   JSONDecodeError, IOError and KeyError are caught; the AttributeError of
   .get on a JSON value that is not an object is not *)
_load_token_from_file(file) ==
    CASE file.kind = "object"  -> [raised |-> FALSE, value |-> _get(file.data, "access_token")]
      [] file.kind = "array"   -> [raised |-> TRUE, value |-> None]
      [] OTHER                 -> [raised |-> FALSE, value |-> None]

(* os.path.exists(env_token_path) *)
path_exists(file) == file.kind # "absent"

(* _is_token_valid: the probe's answer counts when it is HTTP 200 or 401 *)
_is_token_valid(url, resp) ==
    /\ url # None
    /\ resp.kind = "http"
    /\ resp.status \in {200, 401}

(* _is_token_fresh comparing with <= : fresh until the margin is over *)
_is_token_fresh_inclusive(toks, file_exists, mtime, t) ==
    /\ "saved_at" \in DOMAIN toks
    /\ "expires_in" \in DOMAIN toks
    /\ file_exists
    /\ t <= mtime + (toks.expires_in - MARGIN)

(* _is_token_fresh counting the lifetime from the time the payload was first
   saved (0) and not from the token file's mtime *)
_is_token_fresh_payload_time(toks, file_exists, mtime, t) ==
    /\ "saved_at" \in DOMAIN toks
    /\ "expires_in" \in DOMAIN toks
    /\ file_exists
    /\ t < 0 + (toks.expires_in - MARGIN)

(* _is_token_fresh: the token file's mtime plus expires_in less the margin *)
_is_token_fresh(toks, file_exists, mtime, t) ==
    IF "saved_at" \notin DOMAIN toks \/ "expires_in" \notin DOMAIN toks
    THEN FALSE
    ELSE IF ~file_exists
         THEN FALSE
         ELSE t < mtime + (toks.expires_in - MARGIN)

(* the merge taking the refresh token from the store as it is now, not from
   the credential this invocation loaded *)
merge_refresh_token_from_store(new_tokens, rt) ==
    IF "refresh_token" \notin DOMAIN new_tokens
    THEN new_tokens @@ [refresh_token |-> _get(store, "refresh_token")]
    ELSE new_tokens

(* "Preservar el refresh token si no viene en la respuesta" *)
merge_refresh_token(new_tokens, rt) ==
    IF "refresh_token" \notin DOMAIN new_tokens
    THEN new_tokens @@ [refresh_token |-> rt]
    ELSE new_tokens

(* the form posted without the stored refresh token *)
refresh_request_dropped(rt) ==
    [call |-> "refresh", grant_type |-> "refresh_token", refresh_token |-> ""]

(* The form _refresh_access_token posts *)
refresh_request(rt) ==
    [call |-> "refresh", grant_type |-> "refresh_token", refresh_token |-> rt]

(* clear_credentials that leaves the stored credential in place *)
clear_credentials_kept(st) == st

(* clear_credentials *)
clear_credentials(st) == clear_tokens(st)

----------------------------------------------------------------------------
(* How an invocation ends *)

Authenticated(tok, src) ==
    /\ pc' = "done"
    /\ outcome' = "authenticated"
    /\ result' = tok
    /\ source' = src

(* raise SystemExit(1) *)
Failed ==
    /\ pc' = "done"
    /\ outcome' = "failed"
    /\ result' = None
    /\ source' = "none"

(* an exception no handler of the chain catches *)
Raised ==
    /\ pc' = "done"
    /\ outcome' = "error"
    /\ result' = None
    /\ source' = "none"

(* ensure_authenticated going on to authenticate_user() whatever
   get_valid_token returned *)
AfterGetValidToken_discard(tok, src) ==
    /\ pc' = "login"
    /\ UNCHANGED <<outcome, result, source>>

(* ensure_authenticated: "token = self.get_valid_token(); if token: return token",
   else authenticate_user() *)
AfterGetValidToken(tok, src) ==
    IF Truthy(tok)
    THEN Authenticated(tok, src)
    ELSE /\ pc' = "login"
         /\ UNCHANGED <<outcome, result, source>>

(* get_valid_token returning None as soon as the legacy file gives no token *)
LegacyMiss_return ==
    /\ pc' = "login"
    /\ UNCHANGED <<token, log, outcome, result, source>>

(* get_valid_token: the legacy file gave no token to probe, "Intentar obtener
   token desde storage local" comes next *)
LegacyMiss ==
    /\ pc' = "stored"
    /\ UNCHANGED <<token, log, outcome, result, source>>

(* a failed refresh raising SystemExit(1) on the spot *)
RefreshUnavailable_fatal ==
    /\ Failed
    /\ UNCHANGED <<store, store_mtime>>

(* a failed refresh that also discards the stored credential *)
RefreshUnavailable_clearing ==
    /\ pc' = "login"
    /\ store' = clear_tokens(store)
    /\ UNCHANGED <<store_mtime, outcome, result, source>>

(* _refresh_access_token returned None after a request (a status other than
   200, or a RequestException): get_valid_token returns None and
   ensure_authenticated goes on to authenticate_user() *)
RefreshUnavailable ==
    /\ pc' = "login"
    /\ UNCHANGED <<store, store_mtime, outcome, result, source>>

(* authenticate_user returning the token it found before the flow ran *)
authenticated_token_stale(reloaded) == _get(tokens, "access_token")

(* authenticate_user after a successful flow: "tokens = self.storage.load_tokens();
   return tokens.get("access_token") if tokens else None" *)
authenticated_token(reloaded) ==
    IF reloaded # NoDict THEN _get(reloaded, "access_token") ELSE None

(* no hook is running *)
HookNotRunning ==
    /\ hook_pc = "off"
    /\ exit_status = -1
    /\ hook_token = None
    /\ staged = "none"
    /\ changes = << >>
    /\ health_response = NoResponse
    /\ evaluate_response = NoResponse
    /\ rejected_token = None
    /\ prev_rejected = None

(* no process of the concurrent setting is running *)
NoProcesses ==
    /\ cpc = << >>
    /\ ctokens = << >>
    /\ crt = << >>
    /\ cresp = << >>
    /\ cresult = << >>
    /\ cnew = << >>
    /\ last_writer = 0

----------------------------------------------------------------------------

Init ==
    /\ env_token_path \in {None, "legacy.json"}
    /\ legacy_file \in IF env_token_path = None THEN {AbsentFile} ELSE LegacyFiles
    /\ server_url \in {None, "https://server"}
    /\ config \in {None, "cfg"}
    /\ oauth_login_importable \in BOOLEAN
    /\ store \in InitialStores
    /\ store_mtime = 0
    /\ now = 0
    /\ pc = "idle"
    /\ token = None
    /\ tokens = NoDict
    /\ fresh = "none"
    /\ probe_response = NoResponse
    /\ refresh_token = None
    /\ refresh_response = NoResponse
    /\ steps = << >>
    /\ log = << >>
    /\ result = None
    /\ outcome = "none"
    /\ source = "none"
    /\ last_token = None
    /\ cleared = FALSE
    /\ dead_token = None
    /\ minted = 0
    /\ flow_success = "none"
    /\ was_stale = "no"
    /\ HookNotRunning
    /\ NoProcesses

(* ensure_authenticated() is called *)
Invoke ==
    /\ pc = "idle"
    /\ pc' = "legacy"
    /\ steps' = << >>
    /\ log' = << >>
    /\ UNCHANGED <<auxVars, envVars, store, store_mtime, now, localVars, result, outcome,
                   source, last_token, cleared, dead_token, minted>>

(* get_valid_token, the legacy file: load it and send the health probe *)
LegacyStep ==
    /\ pc = "legacy"
    /\ steps' = Append(steps, "legacy")
    /\ IF env_token_path # None /\ path_exists(legacy_file)
       THEN LET r == _load_token_from_file(legacy_file) IN
            IF r.raised
            THEN /\ Raised
                 /\ UNCHANGED <<token, log>>
            ELSE IF Truthy(r.value) /\ server_url # None
                 THEN /\ pc' = "probe"
                      /\ token' = r.value
                      /\ log' = Append(log, [call |-> "probe", token |-> r.value])
                      /\ UNCHANGED <<outcome, result, source>>
                 ELSE LegacyMiss
       ELSE LegacyMiss
    /\ UNCHANGED <<auxVars, envVars, store, store_mtime, now, tokens, fresh,
                   probe_response, refresh_token, refresh_response, flow_success,
                   last_token, cleared, dead_token, minted>>

(* the health probe answers, or fails *)
ProbeReturn ==
    /\ pc = "probe"
    /\ \E resp \in ProbeResponses :
         /\ probe_response' = resp
         /\ IF _is_token_valid(server_url, resp)
            THEN Authenticated(token, "legacy")
            ELSE /\ pc' = "stored"
                 /\ UNCHANGED <<outcome, result, source>>
    /\ UNCHANGED <<auxVars, envVars, store, store_mtime, now, token, tokens, fresh,
                   refresh_token, refresh_response, flow_success, steps, log,
                   last_token, cleared, dead_token, minted>>

(* get_valid_token, the stored credential: freshness, then the refresh request *)
StoredStep ==
    /\ pc = "stored"
    /\ steps' = Append(steps, "stored")
    /\ tokens' = load_tokens(store)
    /\ IF tokens' # NoDict
       THEN IF _is_token_fresh(tokens', store # NoDict, store_mtime, now)
            THEN /\ fresh' = "fresh"
                 /\ AfterGetValidToken(_get(tokens', "access_token"), "stored")
                 /\ UNCHANGED <<refresh_token, log>>
            ELSE /\ fresh' = "stale"
                 /\ IF Truthy(_get(tokens', "refresh_token")) /\ config # None
                    THEN /\ pc' = "refresh"
                         /\ refresh_token' = tokens'.refresh_token
                         /\ log' = Append(log, refresh_request(tokens'.refresh_token))
                         /\ UNCHANGED <<outcome, result, source>>
                    ELSE /\ pc' = "login"
                         /\ UNCHANGED <<refresh_token, log, outcome, result, source>>
       ELSE /\ pc' = "login"
            /\ UNCHANGED <<fresh, refresh_token, log, outcome, result, source>>
    /\ UNCHANGED <<auxVars, envVars, store, store_mtime, now, token, probe_response,
                   refresh_response, flow_success, last_token, cleared, dead_token,
                   minted>>

(* the token endpoint answers, or fails: _refresh_access_token from line 138 *)
RefreshReturn ==
    /\ pc = "refresh"
    /\ steps' = Append(steps, "refresh")
    /\ \E resp \in RefreshResponses(minted + 1) :
         /\ refresh_response' = resp
         /\ IF resp.kind = "http" /\ resp.status = 200
            THEN /\ minted < MaxMint
                 /\ minted' = minted + 1
                 /\ LET new_tokens == merge_refresh_token(resp.body, refresh_token) IN
                    IF oauth_login_importable
                    THEN /\ store' = save_tokens(TokenResponse(new_tokens))
                         /\ store_mtime' = now
                         /\ AfterGetValidToken(_get(new_tokens, "access_token"),
                                               "refresh")
                    ELSE /\ Raised
                         /\ UNCHANGED <<store, store_mtime>>
            ELSE /\ RefreshUnavailable
                 /\ UNCHANGED minted
    /\ UNCHANGED <<auxVars, envVars, now, token, tokens, fresh, probe_response,
                   refresh_token, flow_success, log, last_token, cleared, dead_token>>

(* authenticate_user up to run_authentication_flow() *)
LoginStep ==
    /\ pc = "login"
    /\ steps' = Append(steps, "login")
    /\ IF config = None
       THEN /\ Failed
            /\ UNCHANGED log
       ELSE /\ pc' = "flow"
            /\ log' = Append(log, [call |-> "flow"])
            /\ UNCHANGED <<outcome, result, source>>
    /\ UNCHANGED <<auxVars, envVars, store, store_mtime, now, localVars, last_token,
                   cleared, dead_token, minted>>

(* run_authentication_flow() returns; on success it has stored a new token set *)
FlowReturn ==
    /\ pc = "flow"
    /\ \E success \in BOOLEAN :
         IF success
         THEN /\ flow_success' = "True"
              /\ minted < MaxMint
              /\ minted' = minted + 1
              /\ \E ts \in FlowTokenSets(minted + 1) :
                   /\ store' = save_tokens(ts)
                   /\ store_mtime' = now
                   /\ LET tok == authenticated_token(load_tokens(store')) IN
                      IF Truthy(tok) THEN Authenticated(tok, "login") ELSE Failed
         ELSE /\ flow_success' = "False"
              /\ Failed
              /\ UNCHANGED <<store, store_mtime, minted>>
    /\ UNCHANGED <<auxVars, envVars, now, token, tokens, fresh, probe_response,
                   refresh_token, refresh_response, steps, log, last_token, cleared,
                   dead_token>>

(* the invocation is over: the caller has the token, or the process stopped *)
Return ==
    /\ pc = "done"
    /\ pc' = "idle"
    /\ last_token' = IF outcome = "authenticated" THEN result ELSE last_token
    /\ cleared' = FALSE
    /\ dead_token' = None
    /\ token' = None
    /\ tokens' = NoDict
    /\ fresh' = "none"
    /\ probe_response' = NoResponse
    /\ refresh_token' = None
    /\ refresh_response' = NoResponse
    /\ flow_success' = "none"
    /\ steps' = << >>
    /\ log' = << >>
    /\ result' = None
    /\ outcome' = "none"
    /\ source' = "none"
    /\ was_stale' = IF fresh = "stale" THEN "stale" ELSE "no"
    /\ UNCHANGED <<hookVars, concVars, envVars, store, store_mtime, now, minted>>

(* clear_credentials() *)
Invalidate ==
    /\ pc = "idle"
    /\ store' = clear_credentials(store)
    /\ cleared' = TRUE
    /\ dead_token' = last_token
    /\ UNCHANGED <<auxVars, envVars, store_mtime, now, pc, localVars, steps, log, result,
                   outcome, source, last_token, minted>>

(* time passes, between invocations and while a call is awaited *)
Tick ==
    /\ pc \in {"idle", "probe", "refresh", "flow"}
    /\ \E d \in Deltas :
         /\ now + d <= MaxNow
         /\ now' = now + d
    /\ UNCHANGED <<auxVars, envVars, store, store_mtime, pc, localVars, steps, log, result,
                   outcome, source, last_token, cleared, dead_token, minted>>

Next ==
    \/ Invoke
    \/ LegacyStep
    \/ ProbeReturn
    \/ StoredStep
    \/ RefreshReturn
    \/ LoginStep
    \/ FlowReturn
    \/ Return
    \/ Invalidate
    \/ Tick

Spec == Init /\ [][Next]_vars

----------------------------------------------------------------------------
(* The freshness check as a function of the store's mtime T, the declared
   lifetime E and the clock: T, E and the clock are drawn from bounded sets
   and the stored-credential step applies _is_token_fresh to them *)

MaxMtime == 1
MaxElapsed == 3400

FreshExpiresIns == {0, 1, 299, 300, 301, 600, 3600}

InitFresh ==
    /\ env_token_path = None
    /\ legacy_file = AbsentFile
    /\ server_url = None
    /\ config = None
    /\ oauth_login_importable = TRUE
    /\ store \in {Saved(AccessToken(0), None, e) : e \in FreshExpiresIns}
    /\ store_mtime \in 0..MaxMtime
    /\ now \in 0..(store_mtime + MaxElapsed)
    /\ pc = "idle"
    /\ token = None
    /\ tokens = NoDict
    /\ fresh = "none"
    /\ probe_response = NoResponse
    /\ refresh_token = None
    /\ refresh_response = NoResponse
    /\ steps = << >>
    /\ log = << >>
    /\ result = None
    /\ outcome = "none"
    /\ source = "none"
    /\ last_token = None
    /\ cleared = FALSE
    /\ dead_token = None
    /\ minted = 0
    /\ flow_success = "none"
    /\ was_stale = "no"
    /\ HookNotRunning
    /\ NoProcesses

NextFresh ==
    \/ Invoke
    \/ LegacyStep
    \/ StoredStep

SpecFresh == InitFresh /\ [][NextFresh]_vars

----------------------------------------------------------------------------
(* The freshness check over stored payloads of every shape: the file may
   have been written by another version of the tool or by hand, so each of
   saved_at, refresh_token and token_type is there or not.  The file can be
   written again with the same content between two invocations. *)

OptionalFields == {"saved_at", "refresh_token", "token_type"}

FieldValue(k) ==
    CASE k = "saved_at"      -> "hash"
      [] k = "refresh_token" -> RefreshToken(0)
      [] k = "token_type"    -> "Bearer"

StoredPayloads ==
    {[access_token |-> AccessToken(0), expires_in |-> e] @@ [k \in ks |-> FieldValue(k)]
        : e \in ExpiresIns, ks \in SUBSET OptionalFields}

InitPayload ==
    /\ env_token_path = None
    /\ legacy_file = AbsentFile
    /\ server_url = None
    /\ config = None
    /\ oauth_login_importable = TRUE
    /\ store \in StoredPayloads
    /\ store_mtime = 0
    /\ now = 0
    /\ pc = "idle"
    /\ token = None
    /\ tokens = NoDict
    /\ fresh = "none"
    /\ probe_response = NoResponse
    /\ refresh_token = None
    /\ refresh_response = NoResponse
    /\ steps = << >>
    /\ log = << >>
    /\ result = None
    /\ outcome = "none"
    /\ source = "none"
    /\ last_token = None
    /\ cleared = FALSE
    /\ dead_token = None
    /\ minted = 0
    /\ flow_success = "none"
    /\ was_stale = "no"
    /\ HookNotRunning
    /\ NoProcesses

(* the token file is written again with the content it has: only its mtime
   changes *)
Touch ==
    /\ pc = "idle"
    /\ store # NoDict
    /\ store_mtime' = now
    /\ was_stale' = IF was_stale = "stale" THEN "rewritten" ELSE was_stale
    /\ UNCHANGED <<hookVars, concVars, envVars, store, now, pc, localVars, steps, log,
                   result, outcome, source, last_token, cleared, dead_token, minted>>

NextPayload ==
    \/ Invoke
    \/ LegacyStep
    \/ StoredStep
    \/ LoginStep
    \/ Return
    \/ Tick
    \/ Touch

SpecPayload == InitPayload /\ [][NextPayload]_vars

----------------------------------------------------------------------------
(* hooks/hook.py: main, run once per commit *)

(* What "git diff --cached --name-only --diff-filter=ACM" gives
   get_staged_python_files and collect_changes: Python files with a diff and
   a content, Python files whose diff or content is empty, no Python file,
   or a CalledProcessError *)
GitResults == {"files", "empty", "nofiles", "error"}

(* collect_changes: the list of changes, empty where the source has None or [] *)
collect_changes(git) ==
    IF git = "files" THEN <<[filepath |-> "a.py"]>> ELSE << >>

(* Answers of GET {base_url}/health to check_api_health *)
HealthResponses ==
    {[kind |-> "http", status |-> st] : st \in {200, 401, 403, 500}}
    \cup {[kind |-> "exception"]}

(* Answers of POST {base_url}/evaluate: HTTP 200 with a JSON object whose
   status is or is not "success", HTTP 200 without JSON, another status, or
   an exception *)
EvaluateResponses ==
    {[kind |-> "http", status |-> 200, body |-> [status |-> st]]
        : st \in {"success", "failed"}}
    \cup {[kind |-> "http", status |-> st] : st \in {401, 403, 500}}
    \cup {[kind |-> "notjson", status |-> 200], [kind |-> "exception"]}

(* check_api_health accepting every HTTP answer *)
check_api_health_any_status(resp) == resp.kind = "http"

(* check_api_health: True on 200 and on 401, False otherwise *)
check_api_health(resp) ==
    /\ resp.kind = "http"
    /\ resp.status \in {200, 401}

(* evaluate_code: True on HTTP 200 whose JSON has status "success" *)
evaluate_code(resp) ==
    /\ resp.kind = "http"
    /\ resp.status = 200
    /\ _get(resp.body, "status") = "success"

(* "from auth_manager import AuthenticationManager", inside evaluate_code's
   try: where the hooks directory is not on sys.path there is no module
   auth_manager; where it is, the module's own "from .oauth_login import"
   has no parent package.  Both are ImportErrors, which "except Exception"
   of evaluate_code turns into "return False" *)
auth_manager_imported(on_path) == FALSE

(* sys.exit(code) *)
Exit(code) ==
    /\ hook_pc' = "exit"
    /\ exit_status' = code

InitHook ==
    /\ env_token_path \in {None, "legacy.json"}
    /\ legacy_file \in IF env_token_path = None
                       THEN {AbsentFile}
                       ELSE {[kind |-> "array"],
                             [kind |-> "object", data |-> [access_token |-> "L1"]]}
    /\ server_url \in {None, "https://server"}
    /\ config \in {None, "cfg"}
    /\ oauth_login_importable \in BOOLEAN
    /\ store \in InitialStores
    /\ store_mtime = 0
    /\ now = 0
    /\ pc = "idle"
    /\ token = None
    /\ tokens = NoDict
    /\ fresh = "none"
    /\ probe_response = NoResponse
    /\ refresh_token = None
    /\ refresh_response = NoResponse
    /\ steps = << >>
    /\ log = << >>
    /\ result = None
    /\ outcome = "none"
    /\ source = "none"
    /\ last_token = None
    /\ cleared = FALSE
    /\ dead_token = None
    /\ minted = 0
    /\ flow_success = "none"
    /\ was_stale = "no"
    /\ hook_pc = "main"
    /\ exit_status = -1
    /\ hook_token = None
    /\ staged = "none"
    /\ changes = << >>
    /\ health_response = NoResponse
    /\ evaluate_response = NoResponse
    /\ rejected_token = None
    /\ prev_rejected = None
    /\ NoProcesses

managerVars == <<envVars, store_mtime, now, pc, localVars, steps, log, result,
                 outcome, source, last_token, cleared, dead_token, minted, was_stale>>

(* main up to "auth_manager = AuthenticationManager()" *)
HookMain ==
    /\ hook_pc = "main"
    /\ pc = "idle"
    /\ IF server_url = None
       THEN Exit(1)
       ELSE /\ hook_pc' = "auth"
            /\ UNCHANGED exit_status
    /\ UNCHANGED <<managerVars, store, concVars, hook_token, staged, changes,
                   health_response, evaluate_response, rejected_token, prev_rejected>>

(* "token = auth_manager.ensure_authenticated()" is called *)
HookInvoke ==
    /\ hook_pc = "auth"
    /\ Invoke

(* ensure_authenticated() returned, raised SystemExit or another exception *)
HookAuthenticated ==
    /\ hook_pc = "auth"
    /\ pc = "done"
    /\ IF outcome = "authenticated"
       THEN /\ hook_pc' = "collect"
            /\ hook_token' = result
            /\ UNCHANGED exit_status
       ELSE /\ Exit(1)
            /\ UNCHANGED hook_token
    /\ UNCHANGED <<managerVars, store, concVars, staged, changes, health_response,
                   evaluate_response, rejected_token, prev_rejected>>

(* "changes = collect_changes(); if not changes: ... sys.exit(0)" *)
HookCollect ==
    /\ hook_pc = "collect"
    /\ \E git \in GitResults :
         /\ staged' = git
         /\ changes' = collect_changes(git)
         /\ IF changes' = << >>
            THEN Exit(0)
            ELSE /\ hook_pc' = "health"
                 /\ UNCHANGED exit_status
    /\ UNCHANGED <<managerVars, store, concVars, hook_token, health_response,
                   evaluate_response, rejected_token, prev_rejected>>

(* "if not check_api_health(base_url, token): sys.exit(1)" *)
HookHealth ==
    /\ hook_pc = "health"
    /\ \E resp \in HealthResponses :
         /\ health_response' = resp
         /\ IF check_api_health(resp)
            THEN /\ hook_pc' = "evaluate"
                 /\ UNCHANGED exit_status
            ELSE Exit(1)
    /\ UNCHANGED <<managerVars, store, concVars, hook_token, staged, changes,
                   evaluate_response, rejected_token, prev_rejected>>

(* "if not evaluate_code(base_url, token, changes): sys.exit(1)", else
   sys.exit(0); on HTTP 401 evaluate_code means to clear the stored tokens *)
HookEvaluate ==
    /\ hook_pc = "evaluate"
    /\ \E resp \in EvaluateResponses :
         /\ evaluate_response' = resp
         /\ IF resp.kind = "http" /\ resp.status = 401
            THEN /\ rejected_token' = hook_token
                 /\ store' = IF auth_manager_imported(oauth_login_importable)
                             THEN clear_tokens(store)
                             ELSE store
                 /\ Exit(1)
            ELSE /\ UNCHANGED <<rejected_token, store>>
                 /\ IF evaluate_code(resp) THEN Exit(0) ELSE Exit(1)
    /\ UNCHANGED <<managerVars, concVars, hook_token, staged, changes,
                   health_response, prev_rejected>>

(* the process of the hook is over, and with it the manager it made *)
HookReturn ==
    /\ hook_pc = "exit"
    /\ Return

(* the next commit starts the hook again *)
HookRerun ==
    /\ hook_pc = "exit"
    /\ pc = "idle"
    /\ hook_pc' = "main"
    /\ exit_status' = -1
    /\ hook_token' = None
    /\ staged' = "none"
    /\ changes' = << >>
    /\ health_response' = NoResponse
    /\ evaluate_response' = NoResponse
    /\ prev_rejected' = rejected_token
    /\ rejected_token' = None
    /\ UNCHANGED <<managerVars, store, concVars>>

NextHook ==
    \/ HookMain
    \/ HookInvoke
    \/ LegacyStep
    \/ ProbeReturn
    \/ StoredStep
    \/ RefreshReturn
    \/ LoginStep
    \/ FlowReturn
    \/ HookAuthenticated
    \/ HookCollect
    \/ HookHealth
    \/ HookEvaluate
    \/ HookReturn
    \/ HookRerun

SpecHook == InitHook /\ [][NextHook]_vars

----------------------------------------------------------------------------
(* Several processes on one Credential Store, without locking.  Each runs
   the stored-credential and refresh steps of get_valid_token, or clears the
   store as evaluate_code and clear_credentials do.  A save opens the token
   file and then writes it: between the two the file is there but holds no
   complete JSON yet. *)

Procs == {1, 2}

InitConc ==
    /\ env_token_path = None
    /\ legacy_file = AbsentFile
    /\ server_url = None
    /\ config = "cfg"
    /\ oauth_login_importable \in BOOLEAN
    /\ store \in InitialStores
    /\ store_mtime = 0
    /\ now = 0
    /\ pc = "idle"
    /\ token = None
    /\ tokens = NoDict
    /\ fresh = "none"
    /\ probe_response = NoResponse
    /\ refresh_token = None
    /\ refresh_response = NoResponse
    /\ steps = << >>
    /\ log = << >>
    /\ result = None
    /\ outcome = "none"
    /\ source = "none"
    /\ last_token = None
    /\ cleared = FALSE
    /\ dead_token = None
    /\ minted = 0
    /\ flow_success = "none"
    /\ was_stale = "no"
    /\ HookNotRunning
    /\ cpc = [p \in Procs |-> "start"]
    /\ ctokens = [p \in Procs |-> NoDict]
    /\ crt = [p \in Procs |-> None]
    /\ cresp = [p \in Procs |-> NoResponse]
    /\ cresult = [p \in Procs |-> None]
    /\ cnew = [p \in Procs |-> NoDict]
    /\ last_writer = 0

soloVars == <<envVars, now, pc, localVars, steps, log, result, outcome, source,
              last_token, cleared, dead_token, was_stale, hookVars>>

(* "tokens = self.storage.load_tokens()" *)
CLoad(p) ==
    /\ cpc[p] = "start"
    /\ ctokens' = [ctokens EXCEPT ![p] = load_tokens(store)]
    /\ cpc' = [cpc EXCEPT ![p] = "loaded"]
    /\ UNCHANGED <<soloVars, store, store_mtime, minted, crt, cresp, cresult, cnew,
                   last_writer>>

(* "if tokens:" the freshness check, which reads the file's mtime again, then
   the refresh request; with no token the invocation goes on to the login *)
CCheck(p) ==
    /\ cpc[p] = "loaded"
    /\ IF ctokens[p] # NoDict
       THEN IF _is_token_fresh(ctokens[p], store # NoDict, store_mtime, now)
            THEN /\ cresult' = [cresult EXCEPT ![p] = _get(ctokens[p], "access_token")]
                 /\ cpc' = [cpc EXCEPT ![p] = "done"]
                 /\ UNCHANGED crt
            ELSE IF Truthy(_get(ctokens[p], "refresh_token")) /\ config # None
                 THEN /\ crt' = [crt EXCEPT ![p] = ctokens[p].refresh_token]
                      /\ cpc' = [cpc EXCEPT ![p] = "refresh"]
                      /\ UNCHANGED cresult
                 ELSE /\ cpc' = [cpc EXCEPT ![p] = "done"]
                      /\ UNCHANGED <<crt, cresult>>
       ELSE /\ cpc' = [cpc EXCEPT ![p] = "done"]
            /\ UNCHANGED <<crt, cresult>>
    /\ UNCHANGED <<soloVars, store, store_mtime, minted, ctokens, cresp, cnew,
                   last_writer>>

(* the token endpoint answers: on HTTP 200 the merged token set is handed to
   save_tokens, which opens the token file for writing *)
CRefreshReturn(p) ==
    /\ cpc[p] = "refresh"
    /\ \E resp \in RefreshResponses(minted + 1) :
         /\ cresp' = [cresp EXCEPT ![p] = resp]
         /\ IF resp.kind = "http" /\ resp.status = 200
            THEN /\ minted < MaxMint
                 /\ minted' = minted + 1
                 /\ LET new_tokens == merge_refresh_token(resp.body, crt[p]) IN
                    IF oauth_login_importable
                    THEN /\ cnew' = [cnew EXCEPT ![p] = TokenResponse(new_tokens)]
                         /\ store' = PartialFile
                         /\ cpc' = [cpc EXCEPT ![p] = "saving"]
                    ELSE /\ cpc' = [cpc EXCEPT ![p] = "done"]
                         /\ UNCHANGED <<cnew, store>>
            ELSE /\ cpc' = [cpc EXCEPT ![p] = "done"]
                 /\ UNCHANGED <<cnew, store, minted>>
    /\ UNCHANGED <<soloVars, store_mtime, ctokens, crt, cresult, last_writer>>

(* save_tokens has written the file; "return new_tokens" *)
CSaved(p) ==
    /\ cpc[p] = "saving"
    /\ store' = save_tokens(cnew[p])
    /\ store_mtime' = now
    /\ last_writer' = p
    /\ cresult' = [cresult EXCEPT ![p] = _get(cnew[p], "access_token")]
    /\ cpc' = [cpc EXCEPT ![p] = "done"]
    /\ UNCHANGED <<soloVars, minted, ctokens, crt, cresp, cnew>>

(* "manager.storage.clear_tokens()" *)
CClear(p) ==
    /\ cpc[p] = "start"
    /\ store' = clear_credentials(store)
    /\ last_writer' = p
    /\ cpc' = [cpc EXCEPT ![p] = "cleared"]
    /\ UNCHANGED <<soloVars, store_mtime, minted, ctokens, crt, cresp, cresult, cnew>>

NextConc ==
    \E p \in Procs :
        \/ CLoad(p)
        \/ CCheck(p)
        \/ CRefreshReturn(p)
        \/ CSaved(p)
        \/ CClear(p)

SpecConc == InitConc /\ [][NextConc]_vars

----------------------------------------------------------------------------
(* Claims *)

HasCall(kind) == \E i \in DOMAIN log : log[i].call = kind

(* C1: a stored credential last written at T with lifetime E is fresh if and
   only if now < T + E - 300; at now = T + E - 300 exactly it is not fresh, and
   with E <= 300 it is not fresh at any now >= T *)
C1_FreshIffBeforeMargin ==
    fresh # "none" =>
        /\ (fresh = "fresh") <=> (now < store_mtime + tokens.expires_in - 300)
        /\ (now = store_mtime + tokens.expires_in - 300) => (fresh = "stale")
        /\ (tokens.expires_in <= 300 /\ now >= store_mtime) => (fresh = "stale")

(* the check ran exactly at T + E - 300, for a lifetime above the margin *)
C1_Witness ==
    /\ fresh = "stale"
    /\ tokens.expires_in = 3600
    /\ now = store_mtime + tokens.expires_in - 300

----------------------------------------------------------------------------

Range(seq) == {seq[i] : i \in DOMAIN seq}

(* a refresh exchange with grant type refresh_token carrying rt was sent, and
   no interactive flow was started before it *)
RefreshSentFirst(rt) ==
    \E i \in DOMAIN log :
        /\ log[i].call = "refresh"
        /\ log[i].grant_type = "refresh_token"
        /\ log[i].refresh_token = rt
        /\ \A j \in 1..(i - 1) : log[j].call # "flow"

(* the invocation went on to authenticate_user(), or ended in SystemExit(1) *)
Escalated ==
    \/ pc \in {"login", "flow"}
    \/ HasCall("flow")
    \/ (pc = "done" /\ outcome = "failed")

StaleWithRefreshToken ==
    /\ fresh = "stale"
    /\ Truthy(_get(tokens, "refresh_token"))

(* the token endpoint answered HTTP 200 with a JSON body *)
RefreshAnswered200 ==
    /\ refresh_response.kind = "http"
    /\ refresh_response.status = 200

(* the token endpoint answered another status, or the call failed or timed out *)
RefreshRejected ==
    \/ (refresh_response.kind = "http" /\ refresh_response.status # 200)
    \/ refresh_response.kind = "exception"

(* the legacy step is over and gave no token *)
StoredStepIsNext ==
    \/ pc = "stored"
    \/ (Len(steps) >= 2 /\ steps[2] = "stored")

(* C2, as stated: after clear_credentials(), the next ensure_authenticated()
   never returns the access token that was returned before the invalidation,
   whichever step had produced it *)
C2_DeadTokenNeverReturned ==
    (pc = "done" /\ cleared /\ outcome = "authenticated" /\ dead_token # None)
        => result # dead_token

(* C2, amended: after clear_credentials(), the next ensure_authenticated()
   gets nothing from the Credential Store: the stored-credential step finds no
   credential, no refresh exchange is sent, and a token it returns comes from
   the legacy file (which clear_credentials() does not touch) or from a new
   interactive login *)
C2_ClearedStoreMisses ==
    (cleared /\ pc = "done") =>
        /\ tokens = NoDict
        /\ fresh = "none"
        /\ ~HasCall("refresh")
        /\ source \notin {"stored", "refresh"}

(* a token out of the store was returned and invalidated, and the next
   invocation got its token from a new interactive login *)
C2_Witness ==
    /\ cleared
    /\ pc = "done"
    /\ dead_token = AccessToken(0)
    /\ outcome = "authenticated"
    /\ source = "login"
    /\ result # dead_token

(* C3: steps 1-3 never let an error escape: whatever the legacy file, the
   stored payload and the answers are, the invocation ends authenticated or in
   the terminal failure *)
C3_NoErrorEscapes ==
    outcome # "error"

(* C4, as stated: when the stored credential is not fresh and carries a
   refresh token R, a refresh exchange with exactly R is sent before the
   invocation escalates to interactive login or fails *)
C4_StaleAlwaysRefreshes ==
    (StaleWithRefreshToken /\ Escalated) => RefreshSentFirst(tokens.refresh_token)

(* C4, amended: when the stored credential is not fresh, carries a refresh
   token R and an authorization configuration is loaded, a refresh exchange
   (grant type refresh_token) with exactly R is sent before the invocation
   escalates to interactive login or fails; without a configuration no
   refresh exchange is sent *)
C4_StaleRefreshesWhenConfigured ==
    /\ (StaleWithRefreshToken /\ Escalated /\ config # None)
            => RefreshSentFirst(tokens.refresh_token)
    /\ config = None => ~HasCall("refresh")

(* a stale credential with refresh token R0: the exchange was sent with R0 and
   failed, and the interactive flow is running *)
C4_Witness ==
    /\ StaleWithRefreshToken
    /\ tokens.refresh_token = RefreshToken(0)
    /\ pc = "flow"
    /\ RefreshRejected
    /\ RefreshSentFirst(RefreshToken(0))

(* C5: after the refresh endpoint answered HTTP 200, the credential in the
   store has the refresh token R that was sent when the body has none, and
   the body's refresh token when it has one *)
C5_PersistedRefreshToken ==
    RefreshAnswered200 =>
        _get(store, "refresh_token") =
            IF "refresh_token" \in DOMAIN refresh_response.body
            THEN refresh_response.body.refresh_token
            ELSE refresh_token

(* C6: when the refresh endpoint answers a status other than 200, or the call
   fails or times out, the invocation does not end there: it goes on to the
   interactive login, and fails only if the flow yields no token *)
C6_RefreshFailureEscalates ==
    RefreshRejected =>
        /\ pc \in {"login", "flow", "done"}
        /\ (pc \in {"flow", "done"}) => (HasCall("flow") /\ "login" \in Range(steps))
        /\ (pc = "done") => (outcome \in {"authenticated", "failed"})
        /\ (outcome = "authenticated") => (source = "login")

(* the refresh endpoint answered 401 and the invocation returned the token of
   the interactive login that followed *)
C6_Witness ==
    /\ refresh_response.kind = "http"
    /\ refresh_response.status = 401
    /\ pc = "done"
    /\ outcome = "authenticated"
    /\ source = "login"

(* C7: without a configuration, and with no usable token from the legacy file
   or the store, the invocation ends in the terminal failure, and neither the
   interactive flow nor the identity provider was called *)
C7_NoConfigExhausts ==
    (pc = "done" /\ config = None /\ outcome # "authenticated") =>
        /\ outcome = "failed"
        /\ ~HasCall("flow")
        /\ ~HasCall("refresh")

(* C8: the invocation ends in the fatal stop if and only if no step produced
   a token, and a value it returns is a present, non-empty token *)
C8_FatalIffNoToken ==
    (pc = "done") =>
        /\ (outcome = "failed") <=> (source = "none")
        /\ (outcome = "authenticated") => Truthy(result)

(* C9: the legacy step yields the file's access token exactly when the probe
   answers 200 or 401; otherwise it gives no token and the stored-credential
   step runs next *)
C9_LegacyYieldsIffProbeOk ==
    (Len(steps) >= 1 /\ pc # "probe") =>
        /\ (source = "legacy") <=>
               (probe_response.kind = "http" /\ probe_response.status \in {200, 401})
        /\ (source = "legacy") => (result = legacy_file.data.access_token)
        /\ (source # "legacy") => StoredStepIsNext

(* C10: when AUTH_TOKEN_PATH is unset or names no existing file, the legacy
   step gives no token, sends no probe, and the stored-credential step is next *)
C10_MissingLegacyFileFallsThrough ==
    ((env_token_path = None \/ legacy_file.kind = "absent") /\ Len(steps) >= 1) =>
        /\ ~HasCall("probe")
        /\ probe_response = NoResponse
        /\ source # "legacy"
        /\ StoredStepIsNext

(* the path is set, the file it names is missing, and the legacy step has
   handed over to the stored-credential step *)
C10_Witness ==
    /\ env_token_path # None
    /\ legacy_file.kind = "absent"
    /\ steps = <<"legacy">>
    /\ pc = "stored"

----------------------------------------------------------------------------

(* C11: when the stored credential is fresh, the invocation returns its access
   token from the stored-credential step, and neither a refresh exchange nor
   the interactive flow was called, also when the credential carries a
   refresh token *)
C11_FreshIsReturnedWithoutCalls ==
    (fresh = "fresh") =>
        /\ pc = "done"
        /\ outcome = "authenticated"
        /\ source = "stored"
        /\ result = tokens.access_token
        /\ ~HasCall("refresh")
        /\ ~HasCall("flow")
        /\ refresh_response = NoResponse
        /\ steps[Len(steps)] = "stored"

(* a fresh credential with a refresh token and a loaded configuration: the
   refresh was possible, and the stored access token was returned *)
C11_Witness ==
    /\ fresh = "fresh"
    /\ _get(tokens, "refresh_token") = RefreshToken(0)
    /\ config # None
    /\ pc = "done"
    /\ result = AccessToken(0)
    /\ log = << >>

(* C12: when the refresh endpoint answered HTTP 200, the store holds the new
   token set, and the token the invocation returned is the access token of
   the credential in the store and of the response *)
C12_RefreshedTokenIsStored ==
    RefreshAnswered200 =>
        /\ _get(store, "access_token") = refresh_response.body.access_token
        /\ store_mtime = now
        /\ (pc = "done") =>
               /\ outcome = "authenticated"
               /\ result = store.access_token
               /\ result = refresh_response.body.access_token

(* C13: when the interactive flow reported success the invocation returns
   the access token of the credential then in the store; when it reported
   failure the invocation ends in the terminal failure *)
C13_FlowSuccessReturnsStoredToken ==
    /\ (flow_success = "True") =>
           /\ config # None
           /\ pc = "done"
           /\ outcome = "authenticated"
           /\ source = "login"
           /\ store # NoDict
           /\ result = store.access_token
    /\ (flow_success = "False") =>
           /\ pc = "done"
           /\ outcome = "failed"
           /\ result = None

(* a stale credential was loaded, the refresh was rejected, the flow
   succeeded and the token returned is the one the flow stored *)
C13_Witness ==
    /\ flow_success = "True"
    /\ tokens # NoDict
    /\ RefreshRejected
    /\ outcome = "authenticated"
    /\ result = store.access_token
    /\ result # tokens.access_token

StepRank(step) ==
    CASE step = "legacy"  -> 1
      [] step = "stored"  -> 2
      [] step = "refresh" -> 3
      [] step = "login"   -> 4

CallCount(kind) == Cardinality({i \in DOMAIN log : log[i].call = kind})

(* the steps entered so far are in the order legacy, stored, refresh, login *)
StepsInOrder ==
    \A i, j \in DOMAIN steps : (i < j) => (StepRank(steps[i]) < StepRank(steps[j]))

(* the probe, the refresh exchange and the flow were each called at most once *)
CallsAtMostOnce ==
    \A kind \in {"probe", "refresh", "flow"} : CallCount(kind) <= 1

(* C14: the steps of an invocation run in the order legacy probe, stored
   freshness check, refresh exchange, interactive login; each of the three
   external calls is issued at most once; and an invocation that ends, ends
   Authenticated or Failed *)
C14_OrderedOnceAndTerminal ==
    /\ StepsInOrder
    /\ CallsAtMostOnce
    /\ (pc = "done") => (outcome \in {"authenticated", "failed"})

(* C17: while an invocation runs, the store and its mtime change only in the
   step that receives HTTP 200 from the token endpoint and in the return of
   the interactive flow; the legacy token file is never written *)
C17_StoreFrame ==
    [][/\ legacy_file' = legacy_file
       /\ (pc \notin {"idle", "done"} /\ <<store, store_mtime>>' # <<store, store_mtime>>)
              => \/ /\ pc = "refresh"
                    /\ refresh_response'.kind = "http"
                    /\ refresh_response'.status = 200
                 \/ pc = "flow"]_vars

(* the refresh was rejected after time had passed, and the store and its
   mtime are those of the start *)
C17_Witness ==
    /\ pc = "login"
    /\ RefreshRejected
    /\ now > 0
    /\ store = Saved(AccessToken(0), RefreshToken(0), 400)
    /\ store_mtime = 0

----------------------------------------------------------------------------

(* the verdict the freshness check gives every stored payload that has the
   same expires_in as the one it just judged, at the same mtime and time *)
SameVerdictForSiblings ==
    \A p \in StoredPayloads :
        (p.expires_in = tokens.expires_in) =>
            (_is_token_fresh(p, TRUE, store_mtime, now) <=> (fresh = "fresh"))

(* the same, among the payloads that agree with it on having saved_at *)
SameVerdictForSiblingsWithSavedAt ==
    \A p \in StoredPayloads :
        (/\ p.expires_in = tokens.expires_in
         /\ ("saved_at" \in DOMAIN p) <=> ("saved_at" \in DOMAIN tokens)) =>
            (_is_token_fresh(p, TRUE, store_mtime, now) <=> (fresh = "fresh"))

(* a credential found stale was written again with the same content, and is
   judged at the time of that write *)
JudgedAtRewrite ==
    /\ was_stale = "rewritten"
    /\ now = store_mtime
    /\ tokens.expires_in > 300

(* C15, as stated: the freshness verdict depends only on the store's mtime
   and on expires_in: every payload with the same expires_in gets the same
   verdict at the same mtime, whatever other fields it has or lacks; and a
   credential that was found stale is found fresh once the store has been
   written again with the same content *)
C15_FreshnessIgnoresPayload ==
    (fresh # "none") =>
        /\ SameVerdictForSiblings
        /\ JudgedAtRewrite => (fresh = "fresh")

(* C15, amended: a payload that lacks saved_at is never fresh; among the
   payloads that carry saved_at, the verdict depends only on the store's
   mtime and on expires_in, whatever other fields they have or lack, and a
   credential that was found stale is found fresh once the store has been
   written again with the same content *)
C15_FreshnessIgnoresOtherFields ==
    (fresh # "none") =>
        /\ SameVerdictForSiblingsWithSavedAt
        /\ ("saved_at" \notin DOMAIN tokens) => (fresh = "stale")
        /\ (JudgedAtRewrite /\ "saved_at" \in DOMAIN tokens) => (fresh = "fresh")

(* a payload without refresh_token and token_type that was found stale is
   found fresh at the time it was written again *)
C15_Witness ==
    /\ fresh = "fresh"
    /\ JudgedAtRewrite
    /\ now > 0
    /\ DOMAIN tokens = {"access_token", "expires_in", "saved_at"}

----------------------------------------------------------------------------

EvaluationRejectedToken ==
    /\ evaluate_response.kind = "http"
    /\ evaluate_response.status = 401

(* C16: when the evaluation endpoint answered 401 the hook ends with the
   Credential Store cleared and with exit status 1, and the next run of the
   hook does not get the rejected token from the stored credential again *)
C16_RejectedTokenIsCleared ==
    /\ (hook_pc = "exit" /\ EvaluationRejectedToken) =>
           /\ store = NoDict
           /\ exit_status = 1
    /\ (prev_rejected # None /\ pc = "done" /\ source = "stored") =>
           result # prev_rejected

(* C18: the hook exits with status 0 only if SERVER_URL is set and
   ensure_authenticated() returned a token in this run; and, when it
   collected staged Python changes, only if the health check answered 200
   or 401 and the evaluation answered HTTP 200 with status "success" *)
C18_ApprovalNeedsTokenAndEvaluation ==
    (hook_pc = "exit" /\ exit_status = 0) =>
        /\ server_url # None
        /\ Truthy(hook_token)
        /\ (pc = "done") => (outcome = "authenticated" /\ result = hook_token)
        /\ (changes # << >>) =>
               /\ health_response.kind = "http"
               /\ health_response.status \in {200, 401}
               /\ evaluate_response.kind = "http"
               /\ evaluate_response.status = 200
               /\ evaluate_response.body.status = "success"

(* changes were collected, the health check answered 401, the evaluation
   answered 200 with status "success", and the hook approved the commit *)
C18_Witness ==
    /\ hook_pc = "exit"
    /\ exit_status = 0
    /\ changes # << >>
    /\ health_response.kind = "http"
    /\ health_response.status = 401
    /\ evaluate_response.kind = "http"
    /\ evaluate_response.status = 200

----------------------------------------------------------------------------

Answered200(p) ==
    /\ cresp[p].kind = "http"
    /\ cresp[p].status = 200

(* the token set process p assembles from the answer it got and the refresh
   token it had loaded and sent *)
WrittenBy(p) ==
    Saved(cresp[p].body.access_token,
          IF "refresh_token" \in DOMAIN cresp[p].body
          THEN cresp[p].body.refresh_token
          ELSE crt[p],
          cresp[p].body.expires_in)

(* the credential of the start, nothing, or the token set of one process *)
CompleteSets ==
    InitialStores \cup {WrittenBy(p) : p \in {q \in Procs : Answered200(q)}}

AllDone == \A p \in Procs : cpc[p] \in {"done", "cleared"}

(* C19: with two processes on one store and no locking, what a load returned
   is nothing or one complete token set, never a file half written; and when
   both are done the store holds nothing or one complete token set, that of
   the process that wrote last, never fields of two token sets *)
C19_StoreHoldsOneWholeTokenSet ==
    /\ \A p \in Procs : ctokens[p] \in CompleteSets
    /\ store \in CompleteSets \cup {PartialFile}
    /\ AllDone =>
           /\ store \in CompleteSets
           /\ (last_writer # 0) =>
                  store = IF cpc[last_writer] = "cleared"
                          THEN NoDict
                          ELSE WrittenBy(last_writer)

(* both processes refreshed and saved different token sets, process 2 last,
   after it had loaded while process 1 was writing *)
C19_Witness ==
    /\ AllDone
    /\ Answered200(1)
    /\ Answered200(2)
    /\ "refresh_token" \in DOMAIN cresp[1].body
    /\ "refresh_token" \notin DOMAIN cresp[2].body
    /\ last_writer = 2
    /\ store = WrittenBy(2)
    /\ store # WrittenBy(1)

====
